---- MODULE Spec2Model ----
(***************************************************************************)
(* Cart ledger, promo engine and checkout process of the headless         *)
(* e-commerce backend, as a state machine over the document store.        *)
(*                                                                         *)
(* Every request handler is a sequence of steps separated by its awaits:  *)
(* one step per storage read or write, the synchronous code that follows  *)
(* a read being part of the step of that read.                            *)
(*                                                                         *)
(* Money is counted in hundredths of the currency unit and catalogue      *)
(* prices are whole units, so subtotal * value / 100 is exact.            *)
(* An optional field is a set: {} when unset, {x} when set to x.          *)
(***************************************************************************)
EXTENDS Integers, Sequences, FiniteSets, TLC

(***************************************************************************)
(* Bounds                                                                  *)
(***************************************************************************)
MaxStock == 2      \* largest stock of a variant in the catalogue
MaxQty == 2        \* largest quantity a request asks for
MaxLineQty == 2    \* largest quantity a cart line grows to
MaxTime == 2       \* the clock runs over 0..MaxTime
MaxOrders == 1     \* orders created when requests are served one at a time
CartTTL == 2       \* ticks a cart lives after its creation (the 7 days of createOrGetCart)
NReq == 2          \* request slots (requests in flight at the same time)

Reqs == 1..NReq

(***************************************************************************)
(* Catalogue, carts and promo codes in the store                           *)
(***************************************************************************)
ProductIds == {"p1"}
VariantIds == {"v1", "v2"}
Price == [v \in VariantIds |-> IF v = "v1" THEN 100 ELSE 200]
InitialStock == [v \in VariantIds |-> IF v = "v1" THEN MaxStock ELSE MaxStock - 1]

CartIds == {"c1"}
PromoCodes == {"SAVE"}

\* promo codes a request may carry: the stored ones and one that matches nothing
CodeInputs == PromoCodes \cup {"NOPE"}

VARIABLES
    products,   \* products[p] = [isActive, stock: [VariantIds -> Nat]]
    carts,      \* carts[c] = the stored cart document
    promos,     \* promos[code] = the stored promo code document
    orders,     \* sequence of the stored order documents
    now,        \* the clock read by new Date()
    req,        \* req[r] = the request running in slot r, with its local documents
    pre         \* the store as it was when the running request began

vars == <<products, carts, promos, orders, now, req, pre>>

(***************************************************************************)
(* Optional values                                                         *)
(***************************************************************************)
None == {}
Some(x) == {x}
The(o) == CHOOSE x \in o : TRUE
\* JavaScript truthiness of an optional number: undefined and 0 are falsy
Truthy(o) == o # {} /\ o # {0}

Min(a, b) == IF a <= b THEN a ELSE b

(***************************************************************************)
(* PromoCode model                                                         *)
(***************************************************************************)
\* String.prototype.toUpperCase on the codes the model uses
ToUpperCase(code) ==
    CASE code = "save" -> "SAVE"
      [] code = "nope" -> "NOPE"
      [] OTHER -> code

\* isValid with the usage limit read as usedCount <= maxUses
PromoIsValidInclusive(p, t) ==
    /\ p.isActive
    /\ t >= p.validFrom
    /\ t <= p.validTo
    /\ (~Truthy(p.maxUses) \/ p.usedCount <= The(p.maxUses))

PromoIsValid(p, t) ==
    /\ p.isActive
    /\ t >= p.validFrom
    /\ t <= p.validTo
    /\ (~Truthy(p.maxUses) \/ p.usedCount < The(p.maxUses))

RawDiscount(p, subtotal) ==
    IF p.type = "percentage" THEN (subtotal * p.value) \div 100 ELSE p.value

CalculateDiscount(p, subtotal, t) ==
    IF ~PromoIsValid(p, t) THEN 0
    ELSE IF Truthy(p.minOrderAmount) /\ subtotal < The(p.minOrderAmount) THEN 0
    ELSE LET raw == RawDiscount(p, subtotal)
             capped == IF Truthy(p.maxDiscount) THEN Min(raw, The(p.maxDiscount)) ELSE raw
         IN Min(capped, subtotal)

\* findValidPromoCode whose query admits a promo used maxUses times
FindValidPromoCodeAtLimit(store, code, subtotal, t) ==
    LET key == ToUpperCase(code)
        hit == IF /\ key \in DOMAIN store
                  /\ store[key].isActive
                  /\ store[key].validFrom <= t
                  /\ store[key].validTo >= t
                  /\ (store[key].maxUses = None \/ store[key].usedCount <= The(store[key].maxUses))
               THEN Some(store[key]) ELSE None
    IN IF hit = None THEN None
       ELSE IF Truthy(The(hit).minOrderAmount) /\ subtotal < The(The(hit).minOrderAmount) THEN None
       ELSE hit

\* the promo found by the query of findValidPromoCode, as an optional value
FindValidPromoCode(store, code, subtotal, t) ==
    LET key == ToUpperCase(code)
        hit == IF /\ key \in DOMAIN store
                  /\ store[key].isActive
                  /\ store[key].validFrom <= t
                  /\ store[key].validTo >= t
                  /\ (store[key].maxUses = None \/ store[key].usedCount < The(store[key].maxUses))
               THEN Some(store[key]) ELSE None
    IN IF hit = None THEN None
       ELSE IF Truthy(The(hit).minOrderAmount) /\ subtotal < The(The(hit).minOrderAmount) THEN None
       ELSE hit

(***************************************************************************)
(* Product model                                                           *)
(***************************************************************************)
FindProductById(store, pid) == IF pid \in DOMAIN store THEN Some(store[pid]) ELSE None

HasVariant(p, vid) == vid \in DOMAIN p.stock

IsInStock(p, vid, quantity) == IF HasVariant(p, vid) THEN p.stock[vid] >= quantity ELSE FALSE

\* updateStock without its check of the stock
UpdateStockUnchecked(p, vid, quantity) ==
    IF ~HasVariant(p, vid) THEN [err |-> "VariantNotFound", stock |-> 0]
    ELSE [err |-> "ok", stock |-> p.stock[vid] - quantity]

\* updateStock taking one unit whatever the quantity
UpdateStockByOne(p, vid, quantity) ==
    IF ~HasVariant(p, vid) THEN [err |-> "VariantNotFound", stock |-> 0]
    ELSE IF p.stock[vid] < quantity THEN [err |-> "InsufficientStock", stock |-> p.stock[vid]]
    ELSE [err |-> "ok", stock |-> p.stock[vid] - 1]

\* updateStock up to its save: "ok" with the stock to write, or the error it throws
UpdateStock(p, vid, quantity) ==
    IF ~HasVariant(p, vid) THEN [err |-> "VariantNotFound", stock |-> 0]
    ELSE IF p.stock[vid] < quantity THEN [err |-> "InsufficientStock", stock |-> p.stock[vid]]
    ELSE [err |-> "ok", stock |-> p.stock[vid] - quantity]

(***************************************************************************)
(* Cart model                                                              *)
(***************************************************************************)
RECURSIVE SumLines(_)
SumLines(items) ==
    IF items = <<>> THEN 0
    ELSE SumLines(SubSeq(items, 1, Len(items) - 1))
         + items[Len(items)].price * items[Len(items)].quantity

\* calculateTotals forgetting the discount
CalculateTotalsIgnoringDiscount(c) ==
    LET s == SumLines(c.items)
    IN [c EXCEPT !.subtotal = s, !.total = s]

CalculateTotals(c) ==
    LET s == SumLines(c.items)
    IN [c EXCEPT !.subtotal = s, !.total = s - c.discount]

\* Array.prototype.findIndex on the lines: the first matching index, 0 for -1
FindIndex(items, pid, vid) ==
    LET hits == {i \in 1..Len(items) : items[i].productId = pid /\ items[i].variantId = vid}
    IN IF hits = {} THEN 0 ELSE CHOOSE i \in hits : \A j \in hits : i <= j

RemoveAt(items, i) == SubSeq(items, 1, i - 1) \o SubSeq(items, i + 1, Len(items))

\* addItem pushing a line whether or not the pair has one
AddItemAlwaysPushing(c, pid, vid, quantity, price) ==
    CalculateTotals([c EXCEPT !.items = Append(@,
        [productId |-> pid, variantId |-> vid, quantity |-> quantity, price |-> price])])

AddItem(c, pid, vid, quantity, price) ==
    LET i == FindIndex(c.items, pid, vid)
        line == [productId |-> pid, variantId |-> vid, quantity |-> quantity, price |-> price]
    IN CalculateTotals(
         IF i > 0 THEN [c EXCEPT !.items[i].quantity = @ + quantity]
         ELSE [c EXCEPT !.items = Append(@, line)])

\* updateItemQuantity emptying the cart when the quantity is not positive
UpdateItemQuantityEmptying(c, pid, vid, quantity) ==
    LET i == FindIndex(c.items, pid, vid)
    IN CalculateTotals(
         IF quantity <= 0 THEN [c EXCEPT !.items = <<>>]
         ELSE [c EXCEPT !.items[i].quantity = quantity])

\* updateItemQuantity after its lookup of the line (it throws when FindIndex gives 0)
UpdateItemQuantity(c, pid, vid, quantity) ==
    LET i == FindIndex(c.items, pid, vid)
    IN CalculateTotals(
         IF quantity <= 0 THEN [c EXCEPT !.items = RemoveAt(@, i)]
         ELSE [c EXCEPT !.items[i].quantity = quantity])

\* removeItem dropping the last line when the pair has none
RemoveItemOrLast(c, pid, vid) ==
    CalculateTotals([c EXCEPT !.items =
        IF FindIndex(@, pid, vid) = 0 THEN SubSeq(@, 1, Len(@) - 1)
        ELSE SelectSeq(@, LAMBDA it : ~(it.productId = pid /\ it.variantId = vid))])

RemoveItem(c, pid, vid) ==
    CalculateTotals([c EXCEPT !.items =
        SelectSeq(@, LAMBDA it : ~(it.productId = pid /\ it.variantId = vid))])

ClearCart(c) ==
    CalculateTotals([c EXCEPT !.items = <<>>, !.promoCode = None, !.discount = 0])

ApplyPromoCode(c, code, discountAmount) ==
    CalculateTotals([c EXCEPT !.promoCode = Some(code),
                              !.discount = Min(discountAmount, c.subtotal)])

RemovePromoCode(c) ==
    CalculateTotals([c EXCEPT !.promoCode = None, !.discount = 0])

\* the validators of cartSchema and cartItemSchema, run by save()
CartSchemaValid(c) ==
    /\ c.subtotal >= 0
    /\ c.discount >= 0
    /\ c.total >= 0
    /\ \A i \in 1..Len(c.items) : c.items[i].quantity >= 1 /\ c.items[i].price >= 0

\* a cart lookup that does not look at expiresAt
CartFindOneIgnoringExpiry(store, cid, t) ==
    IF cid \in DOMAIN store THEN Some(store[cid]) ELSE None

\* Cart.findOne({ token, expiresAt: { $gt: new Date() } })
CartFindOne(store, cid, t) ==
    IF cid \in DOMAIN store /\ store[cid].expiresAt > t THEN Some(store[cid]) ELSE None

(***************************************************************************)
(* Mongoose save(): the update it sends holds the modified paths only.     *)
(* A push to the lines raises the cart's version; a $set of one line's     *)
(* quantity is sent with the version read and fails when the version has   *)
(* moved; a $set of the whole array does both.  A request is "stale" when  *)
(* the version of its cart has moved since it read the cart.               *)
(***************************************************************************)
ItemsOp(b, d) ==
    IF d.items = b.items THEN "none"
    ELSE IF Len(d.items) = Len(b.items) + 1 /\ SubSeq(d.items, 1, Len(b.items)) = b.items
         THEN "push"
    ELSE IF Len(d.items) = Len(b.items) THEN "setQuantity"
    ELSE "setArray"

VersionWhere(b, d) == ItemsOp(b, d) \in {"setQuantity", "setArray"}
VersionInc(b, d) == ItemsOp(b, d) \in {"push", "setArray"}

\* an update that adds to the stored quantity and recomputes the totals from the
\* stored lines
ApplyDeltaRecomputing(stored, b, d) ==
    LET op == ItemsOp(b, d)
        items == CASE op = "none" -> stored.items
                   [] op = "push" -> Append(stored.items, d.items[Len(d.items)])
                   [] op = "setArray" -> d.items
                   [] op = "setQuantity" ->
                        LET i == CHOOSE j \in 1..Len(b.items) : d.items[j] # b.items[j]
                        IN IF i <= Len(stored.items)
                           THEN [stored.items EXCEPT ![i].quantity =
                                    @ + d.items[i].quantity - b.items[i].quantity]
                           ELSE stored.items
    IN CalculateTotals(
         [items |-> items,
          promoCode |-> IF d.promoCode # b.promoCode THEN d.promoCode ELSE stored.promoCode,
          subtotal |-> stored.subtotal,
          discount |-> IF d.discount # b.discount THEN d.discount ELSE stored.discount,
          total |-> stored.total,
          expiresAt |-> stored.expiresAt])

\* the stored cart after the update of a save of d, read as b, is applied to it
ApplyDelta(stored, b, d) ==
    LET op == ItemsOp(b, d)
        items == CASE op = "none" -> stored.items
                   [] op = "push" -> Append(stored.items, d.items[Len(d.items)])
                   [] op = "setArray" -> d.items
                   [] op = "setQuantity" ->
                        LET i == CHOOSE j \in 1..Len(b.items) : d.items[j] # b.items[j]
                        IN IF i <= Len(stored.items)
                           THEN [stored.items EXCEPT ![i].quantity = d.items[i].quantity]
                           ELSE stored.items
    IN [items |-> items,
        promoCode |-> IF d.promoCode # b.promoCode THEN d.promoCode ELSE stored.promoCode,
        subtotal |-> IF d.subtotal # b.subtotal THEN d.subtotal ELSE stored.subtotal,
        discount |-> IF d.discount # b.discount THEN d.discount ELSE stored.discount,
        total |-> IF d.total # b.total THEN d.total ELSE stored.total,
        expiresAt |-> stored.expiresAt]

\* save() of the cart document d, read as b: rejected by the validators or by the version
CartSaveFails(b, d, stale) == ~CartSchemaValid(d) \/ (VersionWhere(b, d) /\ stale)

(***************************************************************************)
(* Order model                                                             *)
(***************************************************************************)
\* validators of an orderSchema whose total has no minimum
OrderSchemaValidWithoutTotal(o) ==
    /\ o.subtotal >= 0
    /\ o.discount >= 0
    /\ \A i \in 1..Len(o.items) : o.items[i].quantity >= 1 /\ o.items[i].price >= 0

\* the validators of orderSchema and orderItemSchema, run by save()
OrderSchemaValid(o) ==
    /\ o.subtotal >= 0
    /\ o.discount >= 0
    /\ o.total >= 0
    /\ \A i \in 1..Len(o.items) : o.items[i].quantity >= 1 /\ o.items[i].price >= 0

\* an order whose total forgets the discount
NewOrderUndiscounted(cid, cart, finalDiscount, code) ==
    [cartId |-> cid,
     items |-> cart.items,
     subtotal |-> cart.subtotal,
     discount |-> finalDiscount,
     total |-> cart.subtotal,
     promoCode |-> IF code # None THEN code ELSE cart.promoCode,
     status |-> "pending",
     paymentStatus |-> "pending",
     orderNumber |-> None,
     trackingNumber |-> None,
     notes |-> None]

\* new Order({...}) of the checkout route
NewOrder(cid, cart, finalDiscount, code) ==
    [cartId |-> cid,
     items |-> cart.items,
     subtotal |-> cart.subtotal,
     discount |-> finalDiscount,
     total |-> cart.subtotal - finalDiscount,
     promoCode |-> IF code # None THEN code ELSE cart.promoCode,
     status |-> "pending",
     paymentStatus |-> "pending",
     orderNumber |-> None,
     trackingNumber |-> None,
     notes |-> None]

\* the pre-save hook of orderSchema: a new order without a number gets one; the
\* generated number is stood for by n, the count of orders once this one is stored
OrderPreSave(o, isNew, n) ==
    IF isNew /\ o.orderNumber = None THEN [o EXCEPT !.orderNumber = Some(n)] ELSE o

OrderStatuses == {"pending", "confirmed", "shipped", "delivered", "cancelled"}
PaymentStatuses == {"pending", "paid", "failed", "refunded"}

\* updateStatus refusing to move an order back to pending
UpdateStatusForwardOnly(o, status, trackingNumber, notes) ==
    [o EXCEPT !.status = IF status = "pending" THEN @ ELSE status,
              !.trackingNumber = IF trackingNumber # None THEN trackingNumber ELSE @,
              !.notes = IF notes # None THEN notes ELSE @]

\* updateStatus up to its save
UpdateStatus(o, status, trackingNumber, notes) ==
    [o EXCEPT !.status = status,
              !.trackingNumber = IF trackingNumber # None THEN trackingNumber ELSE @,
              !.notes = IF notes # None THEN notes ELSE @]

\* updatePaymentStatus confirming the order it marks as paid
UpdatePaymentStatusConfirming(o, paymentStatus) ==
    [o EXCEPT !.paymentStatus = paymentStatus,
              !.status = IF paymentStatus = "paid" THEN "confirmed" ELSE @]

\* updatePaymentStatus up to its save
UpdatePaymentStatus(o, paymentStatus) == [o EXCEPT !.paymentStatus = paymentStatus]

(***************************************************************************)
(* Initial store                                                           *)
(***************************************************************************)
\* new Cart({ token, items: [], expiresAt }) of createOrGetCart, saved at time 0
NewCart ==
    [items |-> <<>>, promoCode |-> None, subtotal |-> 0, discount |-> 0, total |-> 0,
     expiresAt |-> CartTTL]

\* the promo code documents the store is seeded with (one of them per run)
PromoDocs ==
    { [type |-> "fixed", value |-> 150, maxDiscount |-> None, minOrderAmount |-> Some(100),
       validFrom |-> 0, validTo |-> 1, maxUses |-> Some(1), usedCount |-> 0, isActive |-> TRUE] }

IdleReq ==
    [op |-> "none", pc |-> "idle", cartId |-> "c1", pid |-> "p1", vid |-> "v1", qty |-> 0,
     code |-> None, base |-> NewCart, doc |-> NewCart, stale |-> FALSE, idx |-> 0,
     fd |-> 0, val |-> 0, oid |-> 0, res |-> "none", errors |-> <<>>,
     status |-> "none", tracking |-> None, notes |-> None,
     sold |-> [v \in VariantIds |-> 0]]

\* what a claim compares the store with after a request
Snapshot ==
    [stock |-> [p \in DOMAIN products |-> products[p].stock],
     carts |-> carts,
     used |-> [c \in DOMAIN promos |-> promos[c].usedCount],
     norders |-> Len(orders),
     active |-> [p \in DOMAIN products |-> products[p].isActive],
     orders |-> orders,
     time |-> now]

Init ==
    /\ products = [p \in ProductIds |-> [isActive |-> TRUE, stock |-> InitialStock]]
    /\ carts = [c \in CartIds |-> NewCart]
    /\ promos \in [PromoCodes -> PromoDocs]
    /\ orders = <<>>
    /\ now = 0
    /\ req = [r \in Reqs |-> IdleReq]
    /\ pre = [stock |-> [p \in ProductIds |-> InitialStock],
              carts |-> [c \in CartIds |-> NewCart],
              used |-> [c \in PromoCodes |-> 0],
              norders |-> 0,
              active |-> [p \in ProductIds |-> TRUE],
              orders |-> <<>>,
              time |-> 0]

(***************************************************************************)
(* Requests.  A step of a handler is a function of the store s, the slot r *)
(* of the request and the time t of the step; it gives the store after it. *)
(***************************************************************************)
Store == [products |-> products, carts |-> carts, promos |-> promos, orders |-> orders,
          req |-> req]

Becomes(s) ==
    /\ products' = s.products
    /\ carts' = s.carts
    /\ promos' = s.promos
    /\ orders' = s.orders
    /\ req' = s.req

Active(r) == req[r].pc \notin {"idle", "done"}
Idle == \A r \in Reqs : ~Active(r)

\* the request record once the response is sent
Finish(q, res) == [q EXCEPT !.pc = "done", !.res = res, !.idx = 0, !.val = 0, !.fd = 0,
                              !.stale = FALSE, !.base = NewCart, !.doc = NewCart]

\* a request arrives in slot r
Started(s, r, op, cid, pid, vid, qty, code) ==
    [s EXCEPT !.req[r] = [IdleReq EXCEPT !.op = op, !.pc = "findCart", !.cartId = cid,
                                         !.pid = pid, !.vid = vid, !.qty = qty, !.code = code]]

\* the request after Cart.findOne found the cart c
Loaded(q, c, pc) == [q EXCEPT !.pc = pc, !.base = c, !.doc = c, !.stale = FALSE]

\* the request after its cart method changed its document to d and called save()
Saving(q, d) == [q EXCEPT !.pc = "saveCart", !.doc = d]

(***************************************************************************)
(* Cart routes                                                             *)
(***************************************************************************)
CartOps == {"addItem", "updateQuantity", "removeItem", "clear", "applyPromo", "removePromo"}

\* POST /:token/items, up to the product lookup
AddItemFindCart(s, r, t) ==
    LET found == CartFindOne(s.carts, s.req[r].cartId, t)
    IN [s EXCEPT !.req[r] =
          IF found = None THEN Finish(@, "CartNotFound")
          ELSE Loaded(@, The(found), "findProduct")]

\* POST /:token/items, from the product lookup to the save of cart.addItem
AddItemFindProduct(s, r, t) ==
    LET q == s.req[r]
        found == FindProductById(s.products, q.pid)
    IN [s EXCEPT !.req[r] =
          IF found = None \/ ~The(found).isActive THEN Finish(@, "ProductNotFound")
          ELSE IF ~HasVariant(The(found), q.vid) THEN Finish(@, "VariantNotFound")
          ELSE IF ~IsInStock(The(found), q.vid, q.qty) THEN Finish(@, "InsufficientStock")
          ELSE Saving(@, AddItem(q.doc, q.pid, q.vid, q.qty, Price[q.vid]))]

\* PUT /:token/items/:productId/:variantId, up to the product lookup or the save
UpdateQuantityFindCart(s, r, t) ==
    LET q == s.req[r]
        found == CartFindOne(s.carts, q.cartId, t)
    IN [s EXCEPT !.req[r] =
          IF found = None THEN Finish(@, "CartNotFound")
          ELSE IF q.qty > 0 THEN Loaded(@, The(found), "findProduct")
          ELSE IF FindIndex(The(found).items, q.pid, q.vid) = 0
               THEN Finish(Loaded(@, The(found), "findCart"), "ItemNotFound")
          ELSE Saving(Loaded(@, The(found), "findCart"),
                      UpdateItemQuantity(The(found), q.pid, q.vid, q.qty))]

\* PUT /:token/items/:productId/:variantId, from the product lookup to the save
UpdateQuantityFindProduct(s, r, t) ==
    LET q == s.req[r]
        found == FindProductById(s.products, q.pid)
    IN [s EXCEPT !.req[r] =
          IF found = None \/ ~IsInStock(The(found), q.vid, q.qty)
          THEN Finish(@, "InsufficientStock")
          ELSE IF FindIndex(q.doc.items, q.pid, q.vid) = 0 THEN Finish(@, "ItemNotFound")
          ELSE Saving(@, UpdateItemQuantity(q.doc, q.pid, q.vid, q.qty))]

\* DELETE /:token/items/:productId/:variantId, up to the save of cart.removeItem
RemoveItemFindCart(s, r, t) ==
    LET q == s.req[r]
        found == CartFindOne(s.carts, q.cartId, t)
    IN [s EXCEPT !.req[r] =
          IF found = None THEN Finish(@, "CartNotFound")
          ELSE Saving(Loaded(@, The(found), "findCart"), RemoveItem(The(found), q.pid, q.vid))]

\* POST /:token/clear, up to the save of cart.clearCart
ClearFindCart(s, r, t) ==
    LET found == CartFindOne(s.carts, s.req[r].cartId, t)
    IN [s EXCEPT !.req[r] =
          IF found = None THEN Finish(@, "CartNotFound")
          ELSE Saving(Loaded(@, The(found), "findCart"), ClearCart(The(found)))]

\* POST /:token/promo, up to the promo lookup
ApplyPromoFindCart(s, r, t) ==
    LET found == CartFindOne(s.carts, s.req[r].cartId, t)
    IN [s EXCEPT !.req[r] =
          IF found = None THEN Finish(@, "CartNotFound")
          ELSE Loaded(@, The(found), "findPromo")]

\* POST /:token/promo, from the promo lookup to the save of cart.applyPromoCode
ApplyPromoFindPromo(s, r, t) ==
    LET q == s.req[r]
        found == FindValidPromoCode(s.promos, The(q.code), q.doc.subtotal, t)
    IN [s EXCEPT !.req[r] =
          IF found = None THEN Finish(@, "InvalidPromo")
          ELSE Saving(@, ApplyPromoCode(q.doc, The(q.code),
                                        CalculateDiscount(The(found), q.doc.subtotal, t)))]

\* DELETE /:token/promo, up to the save of cart.removePromoCode
RemovePromoFindCart(s, r, t) ==
    LET found == CartFindOne(s.carts, s.req[r].cartId, t)
    IN [s EXCEPT !.req[r] =
          IF found = None THEN Finish(@, "CartNotFound")
          ELSE Saving(Loaded(@, The(found), "findCart"), RemovePromoCode(The(found)))]

\* the requests once request r has written its cart: the others that read the cart
\* before are stale when the write raised the cart's version
AfterCartWrite(s, r, res) ==
    [x \in Reqs |->
        IF x = r THEN Finish(s.req[r], res)
        ELSE IF /\ VersionInc(s.req[r].base, s.req[r].doc)
                /\ s.req[x].pc \notin {"idle", "done"}
                /\ s.req[x].cartId = s.req[r].cartId
             THEN [s.req[x] EXCEPT !.stale = TRUE]
        ELSE s.req[x]]

\* this.save() of a cart method: the write of the cart document, answered with res
CartSave(s, r, res, failed) ==
    LET q == s.req[r]
    IN IF CartSaveFails(q.base, q.doc, q.stale)
       THEN [s EXCEPT !.req[r] = Finish(@, failed)]
       ELSE [s EXCEPT !.carts[q.cartId] = ApplyDelta(@, q.base, q.doc),
                      !.req = AfterCartWrite(s, r, res)]

(***************************************************************************)
(* Checkout route: POST /api/checkout                                      *)
(***************************************************************************)
\* where the route goes once every line is validated
AfterValidation(q) ==
    IF q.code # None THEN [q EXCEPT !.pc = "validatePromo", !.idx = 0]
    ELSE [q EXCEPT !.pc = "saveOrder", !.idx = 0, !.fd = q.doc.discount]

\* where the route goes once the stock of line i is settled
AfterStockOf(q, i) ==
    IF i < Len(q.doc.items) THEN [q EXCEPT !.pc = "findProduct", !.idx = i + 1, !.val = 0]
    ELSE IF q.code # None THEN [q EXCEPT !.pc = "findPromo", !.idx = 0, !.val = 0]
    ELSE [q EXCEPT !.pc = "saveCart", !.idx = 0, !.val = 0, !.doc = ClearCart(q.doc)]

\* the cart lookup and the empty-cart check
CheckoutFindCart(s, r, t) ==
    LET found == CartFindOne(s.carts, s.req[r].cartId, t)
    IN [s EXCEPT !.req[r] =
          IF found = None THEN Finish(@, "CartNotFound")
          ELSE IF Len(The(found).items) = 0
               THEN Finish(Loaded(@, The(found), "findCart"), "EmptyCart")
          ELSE [Loaded(@, The(found), "validateLine") EXCEPT !.idx = 1]]

\* a validation loop that takes the stock of every line it accepts
CheckoutValidateLineReserving(s, r, t) ==
    LET q == s.req[r]
        item == q.doc.items[q.idx]
        found == FindProductById(s.products, item.productId)
    IN IF found = None \/ ~The(found).isActive
       THEN [s EXCEPT !.req[r] = Finish(@, "ProductUnavailable")]
       ELSE IF ~IsInStock(The(found), item.variantId, item.quantity)
            THEN [s EXCEPT !.req[r] = Finish(@, "InsufficientStock")]
       ELSE [s EXCEPT !.products[item.productId].stock[item.variantId] = @ - item.quantity,
                      !.req[r] = IF q.idx < Len(q.doc.items) THEN [@ EXCEPT !.idx = q.idx + 1]
                                 ELSE AfterValidation(@)]

\* one turn of the validation loop: the product lookup of a line and its checks
CheckoutValidateLine(s, r, t) ==
    LET q == s.req[r]
        item == q.doc.items[q.idx]
        found == FindProductById(s.products, item.productId)
    IN [s EXCEPT !.req[r] =
          IF found = None \/ ~The(found).isActive THEN Finish(@, "ProductUnavailable")
          ELSE IF ~IsInStock(The(found), item.variantId, item.quantity)
               THEN Finish(@, "InsufficientStock")
          ELSE IF q.idx < Len(q.doc.items) THEN [@ EXCEPT !.idx = q.idx + 1]
          ELSE AfterValidation(@)]

\* a promo validation that keeps the discount recorded on the cart
CheckoutValidatePromoKeepingCartDiscount(s, r, t) ==
    LET q == s.req[r]
        found == FindValidPromoCode(s.promos, The(q.code), q.doc.subtotal, t)
    IN [s EXCEPT !.req[r] =
          IF found = None THEN Finish(@, "InvalidPromo")
          ELSE [@ EXCEPT !.pc = "saveOrder", !.fd = q.doc.discount]]

\* the lookup of the supplied promo code and the discount it gives
CheckoutValidatePromo(s, r, t) ==
    LET q == s.req[r]
        found == FindValidPromoCode(s.promos, The(q.code), q.doc.subtotal, t)
    IN [s EXCEPT !.req[r] =
          IF found = None THEN Finish(@, "InvalidPromo")
          ELSE [@ EXCEPT !.pc = "saveOrder",
                         !.fd = CalculateDiscount(The(found), q.doc.subtotal, t)]]

\* new Order and order.save(): the order number is set by the pre-save hook
CheckoutSaveOrder(s, r, t) ==
    LET q == s.req[r]
        order == OrderPreSave(NewOrder(q.cartId, q.doc, q.fd, q.code), TRUE,
                              Len(s.orders) + 1)
    IN IF ~OrderSchemaValid(order)
       THEN [s EXCEPT !.req[r] = Finish(@, "Failed")]
       ELSE [s EXCEPT !.orders = Append(@, order),
                      !.req[r] = [@ EXCEPT !.pc = "findProduct", !.idx = 1,
                                           !.oid = Len(s.orders) + 1]]

\* a stock loop that withdraws the order when updateStock throws
CheckoutFindProductWithdrawing(s, r, t) ==
    LET q == s.req[r]
        item == q.doc.items[q.idx]
        found == FindProductById(s.products, item.productId)
        upd == UpdateStock(The(found), item.variantId, item.quantity)
    IN IF found = None THEN [s EXCEPT !.req[r] = AfterStockOf(@, q.idx)]
       ELSE IF upd.err # "ok"
            THEN [s EXCEPT !.orders = SubSeq(@, 1, Len(@) - 1),
                           !.req[r] = Finish(@, "Failed")]
       ELSE [s EXCEPT !.req[r] = [@ EXCEPT !.pc = "saveProduct", !.val = upd.stock]]

\* one turn of the stock loop, up to the save of product.updateStock
CheckoutFindProduct(s, r, t) ==
    LET q == s.req[r]
        item == q.doc.items[q.idx]
        found == FindProductById(s.products, item.productId)
        upd == UpdateStock(The(found), item.variantId, item.quantity)
    IN [s EXCEPT !.req[r] =
          IF found = None THEN AfterStockOf(@, q.idx)
          ELSE IF upd.err # "ok" THEN Finish(@, "Failed")
          ELSE [@ EXCEPT !.pc = "saveProduct", !.val = upd.stock]]

\* this.save() of product.updateStock: the write of the variant's stock; sold records
\* the quantity of each variant the request has taken with a decrement that succeeded
CheckoutSaveProduct(s, r, t) ==
    LET q == s.req[r]
        item == q.doc.items[q.idx]
    IN [s EXCEPT !.products[item.productId].stock[item.variantId] = q.val,
                 !.req[r] = [AfterStockOf(@, q.idx) EXCEPT
                                !.sold[item.variantId] = @ + item.quantity]]

\* PromoCode.findOne({ code }) and promoCode.incrementUsage() up to its save
CheckoutFindPromo(s, r, t) ==
    LET q == s.req[r]
        key == ToUpperCase(The(q.code))
    IN [s EXCEPT !.req[r] =
          IF key \in DOMAIN s.promos
          THEN [@ EXCEPT !.pc = "savePromo", !.val = s.promos[key].usedCount + 1]
          ELSE [@ EXCEPT !.pc = "saveCart", !.doc = ClearCart(q.doc)]]

\* this.save() of promoCode.incrementUsage: the write of usedCount
CheckoutSavePromo(s, r, t) ==
    LET q == s.req[r]
    IN [s EXCEPT !.promos[ToUpperCase(The(q.code))].usedCount = q.val,
                 !.req[r] = [@ EXCEPT !.pc = "saveCart", !.val = 0, !.doc = ClearCart(q.doc)]]

(***************************************************************************)
(* Validate-only route: POST /api/checkout/validate                        *)
(***************************************************************************)
\* the response of the route: isValid = (errors.length === 0)
ValidateRespond(q) == Finish(q, IF q.errors = <<>> THEN "valid" ELSE "invalid")

\* where the route goes once the loop over the lines is over
AfterValidateLines(q) ==
    IF q.code # None THEN [q EXCEPT !.pc = "validatePromo", !.idx = 0]
    ELSE ValidateRespond(q)

\* the cart lookup
ValidateFindCart(s, r, t) ==
    LET found == CartFindOne(s.carts, s.req[r].cartId, t)
    IN [s EXCEPT !.req[r] =
          IF found = None THEN Finish(@, "CartNotFound")
          ELSE IF Len(The(found).items) = 0
               THEN AfterValidateLines(Loaded(@, The(found), "findCart"))
          ELSE [Loaded(@, The(found), "validateLine") EXCEPT !.idx = 1]]

\* one turn of the loop over the lines: the error of the line is pushed, if any
ValidateLine(s, r, t) ==
    LET q == s.req[r]
        item == q.doc.items[q.idx]
        found == FindProductById(s.products, item.productId)
        pushed == IF found = None \/ ~The(found).isActive
                  THEN Append(q.errors, [error |-> "ProductUnavailable", line |-> q.idx])
                  ELSE IF ~IsInStock(The(found), item.variantId, item.quantity)
                       THEN Append(q.errors, [error |-> "InsufficientStock", line |-> q.idx])
                  ELSE q.errors
    IN [s EXCEPT !.req[r] =
          IF q.idx < Len(q.doc.items) THEN [@ EXCEPT !.errors = pushed, !.idx = q.idx + 1]
          ELSE AfterValidateLines([@ EXCEPT !.errors = pushed])]

\* the lookup of the supplied promo code
ValidatePromo(s, r, t) ==
    LET q == s.req[r]
        found == FindValidPromoCode(s.promos, The(q.code), q.doc.subtotal, t)
    IN [s EXCEPT !.req[r] =
          IF found = None
          THEN ValidateRespond([@ EXCEPT !.errors =
                                   Append(q.errors, [error |-> "InvalidPromo", line |-> 0])])
          ELSE ValidateRespond(@)]

(***************************************************************************)
(* Calculate-only route: POST /api/checkout/calculate                      *)
(***************************************************************************)
\* the response of the route: the discount in fd, the total in val
CalculateRespond(q, discount) ==
    [Finish(q, "ok") EXCEPT !.fd = discount, !.val = q.doc.subtotal - discount]

\* the cart lookup
CalculateFindCart(s, r, t) ==
    LET found == CartFindOne(s.carts, s.req[r].cartId, t)
    IN [s EXCEPT !.req[r] =
          IF found = None THEN Finish(@, "CartNotFound")
          ELSE IF @.code # None THEN Loaded(@, The(found), "findPromo")
          ELSE CalculateRespond(Loaded(@, The(found), "findCart"), 0)]

\* the lookup of the supplied promo code and the discount it gives
CalculateFindPromo(s, r, t) ==
    LET q == s.req[r]
        found == FindValidPromoCode(s.promos, The(q.code), q.doc.subtotal, t)
    IN [s EXCEPT !.req[r] =
          IF found = None THEN CalculateRespond(@, 0)
          ELSE CalculateRespond(@, CalculateDiscount(The(found), q.doc.subtotal, t))]

(***************************************************************************)
(* Order routes: PUT /api/orders/:id and PUT /api/orders/:id/payment       *)
(***************************************************************************)
\* a request for the order oid arrives in slot r
OrderStarted(s, r, op, oid, status, tracking, notes) ==
    [s EXCEPT !.req[r] = [IdleReq EXCEPT !.op = op, !.pc = "findOrder", !.oid = oid,
                                         !.status = status, !.tracking = tracking,
                                         !.notes = notes]]

\* Order.findById of either route
OrderFindById(s, r, t) ==
    [s EXCEPT !.req[r] =
        IF @.oid \in 1..Len(s.orders) THEN [@ EXCEPT !.pc = "saveOrder"]
        ELSE Finish(@, "OrderNotFound")]

\* this.save() of order.updateStatus
UpdateStatusSave(s, r, t) ==
    LET q == s.req[r]
    IN [s EXCEPT !.orders[q.oid] =
                    OrderPreSave(UpdateStatus(@, q.status, q.tracking, q.notes), FALSE, 0),
                 !.req[r] = Finish(@, "ok")]

\* this.save() of order.updatePaymentStatus
UpdatePaymentSave(s, r, t) ==
    LET q == s.req[r]
    IN [s EXCEPT !.orders[q.oid] = OrderPreSave(UpdatePaymentStatus(@, q.status), FALSE, 0),
                 !.req[r] = Finish(@, "ok")]

(***************************************************************************)
(* The step a request takes next, and a request run to its response        *)
(***************************************************************************)
StepOf(s, r, t) ==
    LET op == s.req[r].op
        pc == s.req[r].pc
    IN CASE op = "addItem" /\ pc = "findCart" -> AddItemFindCart(s, r, t)
         [] op = "addItem" /\ pc = "findProduct" -> AddItemFindProduct(s, r, t)
         [] op = "updateQuantity" /\ pc = "findCart" -> UpdateQuantityFindCart(s, r, t)
         [] op = "updateQuantity" /\ pc = "findProduct" -> UpdateQuantityFindProduct(s, r, t)
         [] op = "removeItem" /\ pc = "findCart" -> RemoveItemFindCart(s, r, t)
         [] op = "clear" /\ pc = "findCart" -> ClearFindCart(s, r, t)
         [] op = "applyPromo" /\ pc = "findCart" -> ApplyPromoFindCart(s, r, t)
         [] op = "applyPromo" /\ pc = "findPromo" -> ApplyPromoFindPromo(s, r, t)
         [] op = "removePromo" /\ pc = "findCart" -> RemovePromoFindCart(s, r, t)
         [] op \in CartOps /\ pc = "saveCart" -> CartSave(s, r, "ok", "SaveFailed")
         [] op = "checkout" /\ pc = "findCart" -> CheckoutFindCart(s, r, t)
         [] op = "checkout" /\ pc = "validateLine" -> CheckoutValidateLine(s, r, t)
         [] op = "checkout" /\ pc = "validatePromo" -> CheckoutValidatePromo(s, r, t)
         [] op = "checkout" /\ pc = "saveOrder" -> CheckoutSaveOrder(s, r, t)
         [] op = "checkout" /\ pc = "findProduct" -> CheckoutFindProduct(s, r, t)
         [] op = "checkout" /\ pc = "saveProduct" -> CheckoutSaveProduct(s, r, t)
         [] op = "checkout" /\ pc = "findPromo" -> CheckoutFindPromo(s, r, t)
         [] op = "checkout" /\ pc = "savePromo" -> CheckoutSavePromo(s, r, t)
         [] op = "checkout" /\ pc = "saveCart" -> CartSave(s, r, "created", "Failed")
         [] op = "validate" /\ pc = "findCart" -> ValidateFindCart(s, r, t)
         [] op = "validate" /\ pc = "validateLine" -> ValidateLine(s, r, t)
         [] op = "validate" /\ pc = "validatePromo" -> ValidatePromo(s, r, t)
         [] op = "calculate" /\ pc = "findCart" -> CalculateFindCart(s, r, t)
         [] op = "calculate" /\ pc = "findPromo" -> CalculateFindPromo(s, r, t)
         [] op \in {"updateStatus", "updatePayment"} /\ pc = "findOrder" ->
               OrderFindById(s, r, t)
         [] op = "updateStatus" /\ pc = "saveOrder" -> UpdateStatusSave(s, r, t)
         [] op = "updatePayment" /\ pc = "saveOrder" -> UpdatePaymentSave(s, r, t)

RECURSIVE Run(_, _, _)
Run(s, r, t) == IF s.req[r].pc = "done" THEN s ELSE Run(StepOf(s, r, t), r, t)

(***************************************************************************)
(* What requests carry                                                     *)
(***************************************************************************)
LineQuantity(c, pid, vid) ==
    LET i == FindIndex(c.items, pid, vid) IN IF i = 0 THEN 0 ELSE c.items[i].quantity

\* the request of one route, arrived in slot r
AddItemRequest(r) ==
    {Started(Store, r, "addItem", c, p, v, n, None) :
        c \in CartIds, p \in ProductIds, v \in VariantIds, n \in 1..MaxQty}

UpdateQuantityRequest(r) ==
    {Started(Store, r, "updateQuantity", c, p, v, n, None) :
        c \in CartIds, p \in ProductIds, v \in VariantIds, n \in 0..MaxQty}

RemoveItemRequest(r) ==
    {Started(Store, r, "removeItem", c, p, v, 0, None) :
        c \in CartIds, p \in ProductIds, v \in VariantIds}

ClearRequest(r) == {Started(Store, r, "clear", c, "p1", "v1", 0, None) : c \in CartIds}

ApplyPromoRequest(r) ==
    {Started(Store, r, "applyPromo", c, "p1", "v1", 0, Some(code)) :
        c \in CartIds, code \in CodeInputs}

RemovePromoRequest(r) ==
    {Started(Store, r, "removePromo", c, "p1", "v1", 0, None) : c \in CartIds}

CheckoutRequest(r) ==
    {Started(Store, r, "checkout", c, "p1", "v1", 0, code) :
        c \in CartIds, code \in {None} \cup {Some(x) : x \in CodeInputs}}

ValidateRequest(r) ==
    {Started(Store, r, "validate", c, "p1", "v1", 0, code) :
        c \in CartIds, code \in {None} \cup {Some(x) : x \in CodeInputs}}

CalculateRequest(r) ==
    {Started(Store, r, "calculate", c, "p1", "v1", 0, code) :
        c \in CartIds, code \in {None} \cup {Some(x) : x \in CodeInputs}}

\* trackingNumber and notes of a request: both left out, or both supplied
ShippingInputs == {[tracking |-> None, notes |-> None],
                   [tracking |-> Some("T1"), notes |-> Some("N1")]}

UpdateStatusRequest(r) ==
    {OrderStarted(Store, r, "updateStatus", i, st, sh.tracking, sh.notes) :
        i \in 1..(MaxOrders + 1), st \in OrderStatuses, sh \in ShippingInputs}

UpdatePaymentRequest(r) ==
    {OrderStarted(Store, r, "updatePayment", i, st, None, None) :
        i \in 1..(MaxOrders + 1), st \in PaymentStatuses}

\* the bound on what the model lets arrive: no line grows beyond MaxLineQty
Admitted(s, r) ==
    LET q == s.req[r]
    IN q.op = "addItem" =>
          LineQuantity(s.carts[q.cartId], q.pid, q.vid) + q.qty <= MaxLineQty

(***************************************************************************)
(* The rest of the world                                                   *)
(***************************************************************************)
\* time passes
Tick ==
    /\ now < MaxTime
    /\ now' = now + 1
    /\ UNCHANGED <<products, carts, promos, orders, req, pre>>

\* a product is taken off sale (isActive is written by catalogue maintenance only)
Deactivate(p) ==
    /\ products[p].isActive
    /\ products' = [products EXCEPT ![p].isActive = FALSE]
    /\ UNCHANGED <<carts, promos, orders, now, req, pre>>

(***************************************************************************)
(* One request at a time: every handler runs from its arrival to its       *)
(* response in one step                                                    *)
(***************************************************************************)
Handle(arrivals) ==
    /\ Idle
    /\ \E s \in arrivals :
          /\ Admitted(s, 1)
          /\ Len(Run(s, 1, now).orders) <= MaxOrders
          /\ Becomes(Run(s, 1, now))
    /\ pre' = Snapshot
    /\ UNCHANGED now

AddItemRoute == Handle(AddItemRequest(1))
UpdateQuantityRoute == Handle(UpdateQuantityRequest(1))
RemoveItemRoute == Handle(RemoveItemRequest(1))
ClearRoute == Handle(ClearRequest(1))
ApplyPromoRoute == Handle(ApplyPromoRequest(1))
RemovePromoRoute == Handle(RemovePromoRequest(1))
CheckoutRoute == Handle(CheckoutRequest(1))
ValidateRoute == Handle(ValidateRequest(1))
CalculateRoute == Handle(CalculateRequest(1))

NextSeq ==
    \/ AddItemRoute
    \/ UpdateQuantityRoute
    \/ RemoveItemRoute
    \/ ClearRoute
    \/ ApplyPromoRoute
    \/ RemovePromoRoute
    \/ CheckoutRoute
    \/ ValidateRoute
    \/ CalculateRoute
    \/ Tick
    \/ \E p \in ProductIds : Deactivate(p)

SpecSeq == Init /\ [][NextSeq]_vars

(***************************************************************************)
(* Requests in flight together: a handler yields at every await, so the    *)
(* steps of the requests in the slots interleave.  Every slot serves one   *)
(* request, against a cart that earlier addItem requests have filled.      *)
(***************************************************************************)
\* the carts that up to n more addItem requests make of the carts in cs while the
\* catalogue is as seeded
RECURSIVE Filled(_, _)
Filled(cs, n) ==
    IF n = 0 THEN cs
    ELSE Filled(cs \cup {d \in UNION {{AddItem(c, p, v, k, Price[v]) :
                                          c \in cs, p \in ProductIds,
                                          k \in 1..Min(MaxQty, InitialStock[v])} :
                                      v \in VariantIds} :
                           \A i \in 1..Len(d.items) : d.items[i].quantity <= MaxLineQty},
                n - 1)

InitRace ==
    /\ products = [p \in ProductIds |-> [isActive |-> TRUE, stock |-> InitialStock]]
    /\ carts \in [CartIds -> Filled({NewCart}, MaxLineQty * Cardinality(VariantIds))]
    /\ promos \in [PromoCodes -> PromoDocs]
    /\ orders = <<>>
    /\ now = 0
    /\ req = [r \in Reqs |-> IdleReq]
    /\ pre = [stock |-> [p \in ProductIds |-> InitialStock],
              carts |-> [c \in CartIds |-> NewCart],
              used |-> [c \in PromoCodes |-> 0],
              norders |-> 0,
              active |-> [p \in ProductIds |-> TRUE],
              orders |-> <<>>,
              time |-> 0]

Arrive(r, arrivals) ==
    /\ req[r].pc = "idle"
    /\ \E s \in arrivals : Admitted(s, r) /\ Becomes(s)
    /\ UNCHANGED <<now, pre>>

Arrives(r) ==
    \/ Arrive(r, AddItemRequest(r))
    \/ Arrive(r, UpdateQuantityRequest(r))
    \/ Arrive(r, RemoveItemRequest(r))
    \/ Arrive(r, ClearRequest(r))
    \/ Arrive(r, ApplyPromoRequest(r))
    \/ Arrive(r, RemovePromoRequest(r))
    \/ Arrive(r, CheckoutRequest(r))

Step(r) ==
    /\ Active(r)
    /\ Becomes(StepOf(Store, r, now))
    /\ UNCHANGED <<now, pre>>

Next ==
    \/ \E r \in Reqs : Arrives(r)
    \/ \E r \in Reqs : Step(r)
    \/ Tick
    \/ \E p \in ProductIds : Deactivate(p)

Spec == InitRace /\ [][Next]_vars

(***************************************************************************)
(* The life of an order: the store after a first checkout, then the order  *)
(* routes and cart routes, one request at a time                           *)
(***************************************************************************)
\* the fresh store with cart c filled as cart
FilledStore(c, cart, promo) ==
    [products |-> [p \in ProductIds |-> [isActive |-> TRUE, stock |-> InitialStock]],
     carts |-> [x \in CartIds |-> IF x = c THEN cart ELSE NewCart],
     promos |-> [x \in PromoCodes |-> promo],
     orders |-> <<>>,
     req |-> [r \in Reqs |-> IdleReq]]

\* the stores a checkout leaves with its order created
CheckedOut ==
    {out \in {Run(Started(FilledStore(c, cart, promo), 1, "checkout", c, "p1", "v1", 0, code),
                  1, 0) :
                 c \in CartIds, cart \in Filled({NewCart}, 1) \ {NewCart},
                 promo \in PromoDocs,
                 code \in {None, Some("SAVE")}} :
        out.req[1].res = "created"}

InitOrder ==
    /\ \E out \in CheckedOut :
          /\ products = out.products
          /\ carts = out.carts
          /\ promos = out.promos
          /\ orders = out.orders
          /\ req = out.req
    /\ now = 0
    /\ pre = [stock |-> [p \in ProductIds |-> InitialStock],
              carts |-> [c \in CartIds |-> NewCart],
              used |-> [c \in PromoCodes |-> 0],
              norders |-> 0,
              active |-> [p \in ProductIds |-> TRUE],
              orders |-> <<>>,
              time |-> 0]

UpdateStatusRoute == Handle(UpdateStatusRequest(1))
UpdatePaymentRoute == Handle(UpdatePaymentRequest(1))

NextOrder ==
    \/ UpdateStatusRoute
    \/ UpdatePaymentRoute
    \/ AddItemRoute
    \/ ClearRoute

SpecOrder == InitOrder /\ [][NextOrder]_vars

(***************************************************************************)
(* Requests served one at a time on the stores that two interleaved cart    *)
(* requests leave: an applyPromo and an updateQuantity on the same cart     *)
(***************************************************************************)
\* steps of the two requests together: three each
ScheduleLen == 6

\* the store after the requests of the slots named by sched took a step each, in turn
RECURSIVE Interleave(_, _)
Interleave(s, sched) ==
    IF sched = <<>> THEN s
    ELSE Interleave(IF s.req[Head(sched)].pc \in {"idle", "done"} THEN s
                    ELSE StepOf(s, Head(sched), 0),
                    Tail(sched))

\* the stores an applyPromo and an updateQuantity leave, answered in any order
Raced ==
    {out \in {Interleave(
                 Started(Started(FilledStore(c, cart, promo), 1, "applyPromo", c, "p1", "v1",
                                 0, Some("SAVE")),
                         2, "updateQuantity", c, "p1", v, n, None),
                 sched) :
                 c \in CartIds, cart \in Filled({NewCart}, 2) \ {NewCart},
                 promo \in PromoDocs, v \in VariantIds, n \in 0..MaxQty,
                 sched \in [1..ScheduleLen -> {1, 2}]} :
        \A r \in {1, 2} : out.req[r].pc = "done"}

InitAfterRace ==
    /\ \E out \in Raced :
          /\ products = out.products
          /\ carts = out.carts
          /\ promos = out.promos
          /\ orders = out.orders
          /\ req = out.req
    /\ now = 0
    /\ pre = [stock |-> [p \in ProductIds |-> InitialStock],
              carts |-> [c \in CartIds |-> NewCart],
              used |-> [c \in PromoCodes |-> 0],
              norders |-> 0,
              active |-> [p \in ProductIds |-> TRUE],
              orders |-> <<>>,
              time |-> 0]

NextAfterRace ==
    \/ CheckoutRoute
    \/ AddItemRoute
    \/ UpdateQuantityRoute
    \/ RemovePromoRoute

SpecAfterRace == InitAfterRace /\ [][NextAfterRace]_vars

(***************************************************************************)
(* The promo engine on its own: isValid and calculateDiscount called on    *)
(* every promo document the promo schema admits                            *)
(***************************************************************************)
Subtotals == {0, 100, 200, 300}

PromoInputs ==
    [type : {"percentage", "fixed"},
     value : {0, 50, 150},
     maxDiscount : {None, Some(0), Some(100)},
     minOrderAmount : {None, Some(0), Some(200)},
     validFrom : {0, 1},
     validTo : {1, MaxTime},
     maxUses : {None, Some(1), Some(2)},
     usedCount : 0..2,
     isActive : BOOLEAN]

InitPromo ==
    /\ products = [p \in ProductIds |-> [isActive |-> TRUE, stock |-> InitialStock]]
    /\ carts = [c \in CartIds |-> NewCart]
    /\ promos \in [PromoCodes -> PromoInputs]
    /\ orders = <<>>
    /\ now \in 0..MaxTime
    /\ req = [r \in Reqs |-> IdleReq]
    /\ pre = [stock |-> [p \in ProductIds |-> InitialStock],
              carts |-> [c \in CartIds |-> NewCart],
              used |-> [c \in PromoCodes |-> 0],
              norders |-> 0,
              active |-> [p \in ProductIds |-> TRUE],
              orders |-> <<>>,
              time |-> 0]

\* promo.isValid() at the time now
IsValidCall(code) ==
    /\ req' = [req EXCEPT ![1] =
                 [IdleReq EXCEPT !.op = "isValid", !.pc = "done", !.code = Some(code),
                                 !.res = IF PromoIsValid(promos[code], now)
                                         THEN "valid" ELSE "invalid"]]
    /\ UNCHANGED <<products, carts, promos, orders, now, pre>>

\* promo.calculateDiscount(subtotal) at the time now
CalculateDiscountCall(code, subtotal) ==
    /\ req' = [req EXCEPT ![1] =
                 [IdleReq EXCEPT !.op = "calculateDiscount", !.pc = "done",
                                 !.code = Some(code), !.val = subtotal,
                                 !.fd = CalculateDiscount(promos[code], subtotal, now)]]
    /\ UNCHANGED <<products, carts, promos, orders, now, pre>>

\* the codes findValidPromoCode is called with: the stored code in lower case, and a
\* code no promo is stored under
LookupCodes == {"save", "NOPE"}

\* PromoCode.findValidPromoCode(code, subtotal) at the time now
FindValidPromoCodeCall(code, subtotal) ==
    /\ req' = [req EXCEPT ![1] =
                 [op |-> "findValidPromoCode", pc |-> "done", code |-> code,
                  val |-> subtotal,
                  found |-> FindValidPromoCode(promos, code, subtotal, now)]]
    /\ UNCHANGED <<products, carts, promos, orders, now, pre>>

NextPromo ==
    \/ \E code \in PromoCodes : IsValidCall(code)
    \/ \E code \in PromoCodes, subtotal \in Subtotals : CalculateDiscountCall(code, subtotal)
    \/ \E code \in LookupCodes, subtotal \in Subtotals :
          FindValidPromoCodeCall(code, subtotal)

SpecPromo == InitPromo /\ [][NextPromo]_vars

(***************************************************************************)
(* The catalog listing on its own: GET /api/catalog/products on every      *)
(* catalog of CatalogIds.  Under SpecCatalog the variable products holds   *)
(* the product documents the listing reads.                                *)
(***************************************************************************)
MaxPage == 3
MaxLimit == 2

CatalogIds == {"a", "b", "c"}

\* product documents: name, description and tags are stood for by the terms the text
\* index holds for them, the variants by their prices
CatalogDocs ==
    {d \in [CatalogIds -> [isActive : BOOLEAN,
                           category : {"Electronics", "Clothing"},
                           brand : {"TestBrand", "Other"},
                           text : {{"test", "phone"}, {"test", "shirt"}, {"lamp"}},
                           prices : {{50}, {100}, {200}, {50, 300}},
                           createdAt : 1..3]] :
        /\ d["a"].brand = "TestBrand" /\ d["a"].text = {"test", "phone"}
        /\ d["a"].createdAt = 1
        /\ d["b"].brand = "TestBrand" /\ d["b"].text = {"test", "shirt"}
        /\ d["b"].createdAt = 2 /\ d["b"].prices = {50}
        /\ d["c"].brand = "Other" /\ d["c"].text = {"lamp"}
        /\ d["c"].createdAt = 3 /\ d["c"].prices = {200}
        /\ d["c"].category = "Clothing"
        /\ d["a"].prices \in {{100}, {50, 300}}}

\* the filters of a query that productQuerySchema admits
ProductFilters ==
    LET none == [category |-> None, brand |-> None, search |-> None,
                 minPrice |-> None, maxPrice |-> None]
    IN {none,
        [none EXCEPT !.category = Some("Electronics")],
        [none EXCEPT !.brand = Some("TestBrand")],
        [none EXCEPT !.search = Some("test")],
        [none EXCEPT !.minPrice = Some(100)],
        [none EXCEPT !.maxPrice = Some(200)],
        [none EXCEPT !.category = Some("Electronics"), !.minPrice = Some(100),
                     !.maxPrice = Some(200)]}

\* sortBy price names a field no product document has; sortBy name is left out
ProductSorts == {[sortBy |-> "createdAt", sortOrder |-> "desc"],
                 [sortBy |-> "createdAt", sortOrder |-> "asc"],
                 [sortBy |-> "price", sortOrder |-> "asc"]}

ProductQueries ==
    {[page |-> pg, limit |-> lm, filters |-> f, sort |-> so] :
        pg \in 1..MaxPage, lm \in 1..MaxLimit, f \in ProductFilters, so \in ProductSorts}

\* the $match stage: isActive and each filter that was given; a condition on
\* variants.price holds when some variant meets it
MatchConditions(p, f) ==
    /\ p.isActive
    /\ f.category # None => p.category = The(f.category)
    /\ f.brand # None => p.brand = The(f.brand)
    /\ f.minPrice # None => \E v \in p.prices : v >= The(f.minPrice)
    /\ f.maxPrice # None => \E v \in p.prices : v <= The(f.maxPrice)
    /\ f.search # None => The(f.search) \in p.text

\* the value $sort compares: a missing field compares equal for every document
SortKey(p, sortBy) == IF sortBy = "createdAt" THEN p.createdAt ELSE 0

\* the orders the $sort stage can leave the matched documents in: documents with equal
\* keys come in any order
SortedOrders(docs, ids, sort) ==
    {o \in [1..Cardinality(ids) -> ids] :
        /\ \A i, j \in DOMAIN o : i # j => o[i] # o[j]
        /\ \A i, j \in DOMAIN o : i < j =>
              IF sort.sortOrder = "asc"
              THEN SortKey(docs[o[i]], sort.sortBy) <= SortKey(docs[o[j]], sort.sortBy)
              ELSE SortKey(docs[o[i]], sort.sortBy) >= SortKey(docs[o[j]], sort.sortBy)}

\* $ceil of $divide
CeilDivide(a, b) == (a + b - 1) \div b

\* the $count stage: one document holding the count, none when there is no input
CountStage(n) == IF n = 0 THEN <<>> ELSE <<[count |-> n]>>

\* the listing counting the products of the returned page only
GetProductsCountingPage(docs, q, sorted) ==
    LET skip == (q.page - 1) * q.limit
        page == SubSeq(sorted, skip + 1, Min(skip + q.limit, Len(sorted)))
    IN [products |-> page,
        pagination |-> [page |-> q.page, limit |-> q.limit, total |-> Len(page),
                        totalPages |-> CeilDivide(Len(page), q.limit)]]

\* getProductsWithAggregation from the sorted matches on: the three facets and the
\* result built from them
GetProductsWithAggregation(docs, q, sorted) ==
    LET skip == (q.page - 1) * q.limit
        facetProducts == SubSeq(sorted, skip + 1, Min(skip + q.limit, Len(sorted)))
        totalCount == CountStage(Len(sorted))
        totalPages == IF CountStage(Len(sorted)) = <<>> THEN <<>>
                      ELSE <<[count |-> CeilDivide(Len(sorted), q.limit)]>>
    IN [products |-> facetProducts,
        pagination |-> [page |-> q.page, limit |-> q.limit,
                        total |-> IF totalCount = <<>> THEN 0 ELSE totalCount[1].count,
                        totalPages |-> IF totalPages = <<>> THEN 0
                                       ELSE totalPages[1].count]]

InitCatalog ==
    /\ products \in CatalogDocs
    /\ carts = [c \in CartIds |-> NewCart]
    /\ promos \in [PromoCodes -> PromoDocs]
    /\ orders = <<>>
    /\ now = 0
    /\ req = [r \in Reqs |-> IdleReq]
    /\ pre = [stock |-> [p \in ProductIds |-> InitialStock],
              carts |-> [c \in CartIds |-> NewCart],
              used |-> [c \in PromoCodes |-> 0],
              norders |-> 0,
              active |-> [p \in ProductIds |-> TRUE],
              orders |-> <<>>,
              time |-> 0]

\* GET /api/catalog/products with the query q
ListProducts(q) ==
    \E sorted \in SortedOrders(products,
                               {i \in CatalogIds : MatchConditions(products[i], q.filters)},
                               q.sort) :
        /\ req' = [req EXCEPT ![1] =
                     [op |-> "listProducts", pc |-> "done", query |-> q,
                      data |-> GetProductsWithAggregation(products, q, sorted)]]
        /\ UNCHANGED <<products, carts, promos, orders, now, pre>>

NextCatalog == \E q \in ProductQueries : ListProducts(q)

SpecCatalog == InitCatalog /\ [][NextCatalog]_vars

(***************************************************************************)
(* Properties.  Under SpecSeq the request in slot 1 is the last one served *)
(* and pre is the store as that request found it.                          *)
(***************************************************************************)
Served(op) == req[1].pc = "done" /\ req[1].op = op
CartBefore == pre.carts[req[1].cartId]
CartAfter == carts[req[1].cartId]
NoLineBefore == FindIndex(CartBefore.items, req[1].pid, req[1].vid) = 0
\* the stored promo codes as the last request found them
PromosBefore == [c \in PromoCodes |-> [promos[c] EXCEPT !.usedCount = pre.used[c]]]
\* the stored products as the last request found them
ProductsBefore == [p \in ProductIds |-> [isActive |-> pre.active[p], stock |-> pre.stock[p]]]

\* C1: after any sequence of cart operations every stored cart has subtotal equal to
\* the sum of price * quantity over its lines, total = subtotal - discount and
\* 0 <= discount <= subtotal
CartTotalsConsistent ==
    \A c \in CartIds :
        /\ carts[c].subtotal = SumLines(carts[c].items)
        /\ carts[c].total = carts[c].subtotal - carts[c].discount
        /\ 0 <= carts[c].discount
        /\ carts[c].discount <= carts[c].subtotal

\* a promo code was applied and a line then removed, the discount staying in force
LineRemovedUnderPromo ==
    /\ Served("removeItem")
    /\ req[1].res = "ok"
    /\ Len(CartAfter.items) < Len(CartBefore.items)
    /\ CartAfter.promoCode # None
    /\ CartAfter.discount > 0

\* C2: a checkout that fails validation creates no order and leaves every cart, every
\* stock and every usedCount as they were before the request
CheckoutValidationErrors ==
    {"CartNotFound", "EmptyCart", "ProductUnavailable", "InsufficientStock", "InvalidPromo"}

FailedValidationChangesNothing ==
    Served("checkout") /\ req[1].res \in CheckoutValidationErrors =>
        /\ Len(orders) = pre.norders
        /\ carts = pre.carts
        /\ \A p \in ProductIds : products[p].stock = pre.stock[p]
        /\ \A c \in PromoCodes : promos[c].usedCount = pre.used[c]

\* a checkout refused because a line asks for more than the stock of its variant
CheckoutRefusedForStock ==
    /\ Served("checkout")
    /\ req[1].res = "InsufficientStock"
    /\ Len(CartBefore.items) > 0

\* C3: after a successful checkout with nothing interleaved, every variant's stock is
\* lower by exactly the quantity of its cart line (unchanged if it has no line), and
\* the cart has no items, no promo code, discount 0, subtotal 0 and total 0
CheckoutTakesStockAndEmptiesCart ==
    Served("checkout") /\ req[1].res = "created" =>
        /\ \A p \in ProductIds, v \in VariantIds :
              products[p].stock[v] = pre.stock[p][v] - LineQuantity(CartBefore, p, v)
        /\ CartAfter.items = <<>>
        /\ CartAfter.promoCode = None
        /\ CartAfter.discount = 0
        /\ CartAfter.subtotal = 0
        /\ CartAfter.total = 0

\* a successful checkout of a cart with a line of quantity two and a variant left out
CheckoutOfTwoUnits ==
    /\ Served("checkout")
    /\ req[1].res = "created"
    /\ \E v \in VariantIds : LineQuantity(CartBefore, "p1", v) = 2
    /\ \E v \in VariantIds : LineQuantity(CartBefore, "p1", v) = 0

DiscountFollowsFormula ==
    Served("calculateDiscount") =>
        LET p == promos[The(req[1].code)]
            subtotal == req[1].val
            valid == /\ p.isActive
                     /\ p.validFrom <= now
                     /\ now <= p.validTo
                     /\ (p.maxUses = None \/ p.usedCount < The(p.maxUses))
            raw == IF p.type = "percentage" THEN (subtotal * p.value) \div 100 ELSE p.value
            capped == IF p.maxDiscount # None THEN Min(raw, The(p.maxDiscount)) ELSE raw
            expected == IF ~valid THEN 0
                        ELSE IF p.minOrderAmount # None /\ subtotal < The(p.minOrderAmount)
                             THEN 0
                        ELSE Min(capped, subtotal)
        IN /\ req[1].fd = expected
           /\ 0 <= req[1].fd
           /\ req[1].fd <= subtotal

\* C6: isValid holds exactly when the promo is active, now is within
\* [validFrom, validTo] and maxUses is unset or above usedCount; a promo that is not
\* valid gives discount 0 on every subtotal
ValidIffActiveInWindowUnderLimit ==
    Served("isValid") =>
        LET p == promos[The(req[1].code)]
            expected == /\ p.isActive
                        /\ p.validFrom <= now
                        /\ now <= p.validTo
                        /\ (p.maxUses = None \/ p.usedCount < The(p.maxUses))
        IN /\ (req[1].res = "valid") <=> expected
           /\ ~expected => \A subtotal \in Subtotals : CalculateDiscount(p, subtotal, now) = 0

\* isValid called on an active promo within its window whose uses are exhausted
ExhaustedPromoFoundInvalid ==
    /\ Served("isValid")
    /\ req[1].res = "invalid"
    /\ LET p == promos[The(req[1].code)]
       IN /\ p.isActive
          /\ p.validFrom <= now
          /\ now <= p.validTo
          /\ p.maxUses = Some(p.usedCount)

OneLinePerPair ==
    /\ \A c \in CartIds : \A i, j \in 1..Len(carts[c].items) :
          /\ carts[c].items[i].productId = carts[c].items[j].productId
          /\ carts[c].items[i].variantId = carts[c].items[j].variantId
          => i = j
    /\ Served("addItem") /\ req[1].res = "ok" =>
          LET i == FindIndex(CartBefore.items, req[1].pid, req[1].vid)
          IN IF i > 0
             THEN CartAfter.items =
                    [CartBefore.items EXCEPT ![i].quantity = @ + req[1].qty]
             ELSE CartAfter.items =
                    Append(CartBefore.items,
                           [productId |-> req[1].pid, variantId |-> req[1].vid,
                            quantity |-> req[1].qty, price |-> Price[req[1].vid]])

\* a second addItem for a pair, beside a line of another pair
SecondAddToSameLine ==
    /\ Served("addItem")
    /\ req[1].res = "ok"
    /\ ~NoLineBefore
    /\ Len(CartBefore.items) = 2
    /\ LineQuantity(CartAfter, req[1].pid, req[1].vid)
          = LineQuantity(CartBefore, req[1].pid, req[1].vid) + req[1].qty

OrderIsSnapshotOfCart ==
    Served("checkout") /\ req[1].res = "created" =>
        LET o == orders[req[1].oid]
        IN /\ o.status = "pending"
           /\ o.paymentStatus = "pending"
           /\ o.items = CartBefore.items
           /\ o.subtotal = CartBefore.subtotal
           /\ o.total = o.subtotal - o.discount

\* an order created for a two-line cart with a discount
DiscountedOrderCreated ==
    /\ Served("checkout")
    /\ req[1].res = "created"
    /\ Len(orders[req[1].oid].items) = 2
    /\ orders[req[1].oid].discount > 0
    /\ CartAfter.items = <<>>

\* C13: with a promo code supplied, the order's discount is calculateDiscount of the
\* stored promo on the cart's current subtotal, whatever discount the cart records, and
\* the checkout fails with InvalidPromo when the code is not usable for that subtotal;
\* with no code supplied the order's discount is the discount the cart records
OrderDiscountRevalidated ==
    /\ Served("checkout") /\ req[1].res = "created" =>
          orders[req[1].oid].discount =
              IF req[1].code = None THEN CartBefore.discount
              ELSE CalculateDiscount(PromosBefore[ToUpperCase(The(req[1].code))],
                                     CartBefore.subtotal, pre.time)
    /\ Served("checkout") /\ req[1].code # None
          /\ req[1].res \notin {"CartNotFound", "EmptyCart", "ProductUnavailable",
                                "InsufficientStock"} =>
          (req[1].res = "InvalidPromo" <=>
              FindValidPromoCode(PromosBefore, The(req[1].code), CartBefore.subtotal,
                                 pre.time) = None)

\* a checkout with a code whose discount differs from the one the cart records
OrderDiscountDiffersFromCart ==
    /\ Served("checkout")
    /\ req[1].res = "created"
    /\ req[1].code # None
    /\ CartBefore.discount > 0
    /\ orders[req[1].oid].discount # CartBefore.discount

StockNeverNegative ==
    /\ \A p \in ProductIds, v \in VariantIds : products[p].stock[v] >= 0
    /\ \A p \in ProductIds, v \in VariantIds, n \in 1..MaxQty :
          LET u == UpdateStock(products[p], v, n)
          IN IF products[p].stock[v] < n
             THEN u.err = "InsufficientStock" /\ u.stock = products[p].stock[v]
             ELSE u.err = "ok" /\ u.stock = products[p].stock[v] - n
    /\ \A r \in Reqs : req[r].pc = "saveProduct" => req[r].val >= 0

\* two checkouts took the last units of a variant between them and one was refused
\* by updateStock
StockRunsOutUnderCheckouts ==
    /\ Len(orders) = 2
    /\ \E r \in Reqs : req[r].pc = "done" /\ req[r].op = "checkout" /\ req[r].res = "Failed"
    /\ \E v \in VariantIds : products["p1"].stock[v] = 0

\* the store as the last request found it
StoreBefore ==
    [products |-> ProductsBefore, carts |-> pre.carts, promos |-> PromosBefore,
     orders |-> pre.orders, req |-> [r \in Reqs |-> IdleReq]]

\* nothing stored differs from what the last request found
StoreUntouched ==
    /\ carts = pre.carts
    /\ orders = pre.orders
    /\ \A p \in ProductIds : products[p].stock = pre.stock[p]
    /\ \A c \in PromoCodes : promos[c].usedCount = pre.used[c]

\* the response a checkout with the input of the last request gives on StoreBefore
CommitOnStoreBefore ==
    Run(Started(StoreBefore, 1, "checkout", req[1].cartId, "p1", "v1", 0, req[1].code),
        1, pre.time).req[1].res

\* C14: for an existing unexpired cart the validate-only route answers isValid = true
\* exactly when a checkout with the same input on the same store would pass its
\* validation (cart not empty, every line's product present, active and in stock, the
\* supplied promo usable), and it changes no cart, stock, promo or order
ValidateAgreesWithCommit ==
    Served("validate") /\ req[1].res # "CartNotFound" =>
        /\ (req[1].res = "valid") <=> (CommitOnStoreBefore \notin CheckoutValidationErrors)
        /\ \A i \in 1..Len(CartBefore.items) :
              LET item == CartBefore.items[i]
                  product == ProductsBefore[item.productId]
              IN (\E k \in 1..Len(req[1].errors) : req[1].errors[k].line = i)
                 <=> ~(product.isActive /\ IsInStock(product, item.variantId, item.quantity))
        /\ (\E k \in 1..Len(req[1].errors) : req[1].errors[k].error = "InvalidPromo")
           <=> /\ req[1].code # None
               /\ FindValidPromoCode(PromosBefore, The(req[1].code), CartBefore.subtotal,
                                      pre.time) = None
        /\ StoreUntouched

\* C15: for an existing unexpired cart the calculate-only route answers the discount
\* and total the checkout would determine: the re-validated discount of a usable code
\* that is supplied, the discount the cart records when no code is supplied; and it
\* changes nothing stored
CalculateAgreesWithCommit ==
    Served("calculate") /\ req[1].res # "CartNotFound" =>
        LET usable == FindValidPromoCode(PromosBefore, The(req[1].code),
                                         CartBefore.subtotal, pre.time)
        IN /\ req[1].code = None => req[1].fd = CartBefore.discount
           /\ req[1].code # None /\ usable # None =>
                 req[1].fd = CalculateDiscount(The(usable), CartBefore.subtotal, pre.time)
           /\ req[1].val = CartBefore.subtotal - req[1].fd
           /\ StoreUntouched

\* C18: a cart whose expiresAt is not later than the time of a request is absent for
\* it: cart operations, checkout, validate-only and calculate-only answer
\* cart-not-found and change nothing; and no cart mutation changes expiresAt
ExpiredCartIsAbsent ==
    /\ req[1].pc = "done" /\ CartBefore.expiresAt <= pre.time =>
          req[1].res = "CartNotFound" /\ StoreUntouched
    /\ \A c \in CartIds : carts[c].expiresAt = NewCart.expiresAt

\* a cart with lines and a promo code that has expired, and a request refused for it
RequestOnExpiredCart ==
    /\ Served("removeItem")
    /\ req[1].res = "CartNotFound"
    /\ Len(CartAfter.items) > 0
    /\ CartAfter.promoCode # None
    /\ CartAfter.expiresAt <= pre.time

\* what of an order neither status operation may change
OrderCore(o) ==
    [items |-> o.items, subtotal |-> o.subtotal, discount |-> o.discount,
     total |-> o.total, promoCode |-> o.promoCode, orderNumber |-> o.orderNumber,
     cartId |-> o.cartId]

\* C16: updateStatus changes only status (and trackingNumber and notes when supplied),
\* updatePaymentStatus changes only paymentStatus: through any sequence of them and of
\* later cart operations an order keeps the items, subtotal, discount, total, promoCode
\* and order number it was created with, and neither operation changes the status field
\* the other one sets
OrderCoreIsFrozen ==
    /\ [][\A i \in 1..Len(orders) :
             i <= Len(orders') /\ OrderCore(orders'[i]) = OrderCore(orders[i])]_vars
    /\ [](Served("updateStatus") /\ req[1].res = "ok" =>
             LET o == orders[req[1].oid]
                 was == pre.orders[req[1].oid]
             IN /\ o.paymentStatus = was.paymentStatus
                /\ o.trackingNumber = IF req[1].tracking # None THEN req[1].tracking
                                      ELSE was.trackingNumber
                /\ o.notes = IF req[1].notes # None THEN req[1].notes ELSE was.notes)
    /\ [](Served("updatePayment") /\ req[1].res = "ok" =>
             LET o == orders[req[1].oid]
                 was == pre.orders[req[1].oid]
             IN /\ o.status = was.status
                /\ o.trackingNumber = was.trackingNumber
                /\ o.notes = was.notes)

\* an order marked paid after it was shipped with a tracking number, its cart refilled
PaidAfterShipped ==
    /\ Served("updatePayment")
    /\ req[1].res = "ok"
    /\ orders[req[1].oid].paymentStatus = "paid"
    /\ orders[req[1].oid].status = "shipped"
    /\ orders[req[1].oid].trackingNumber # None
    /\ orders[req[1].oid].discount > 0
    /\ Len(carts["c1"].items) > 0

\* C17: no transition graph is enforced: setting any status on an order succeeds
\* whatever its status was, backwards moves included, and any paymentStatus can be set
\* from any other
AnyStatusFromAny ==
    /\ Served("updateStatus") /\ req[1].oid \in 1..Len(pre.orders) =>
          req[1].res = "ok" /\ orders[req[1].oid].status = req[1].status
    /\ Served("updatePayment") /\ req[1].oid \in 1..Len(pre.orders) =>
          req[1].res = "ok" /\ orders[req[1].oid].paymentStatus = req[1].status

\* a delivered order set back to pending
DeliveredBackToPending ==
    /\ Served("updateStatus")
    /\ req[1].res = "ok"
    /\ pre.orders[req[1].oid].status = "delivered"
    /\ orders[req[1].oid].status = "pending"

\* the filters of the last listing, read on one product document
MatchesFilters(p, f) ==
    /\ f.category # None => p.category = The(f.category)
    /\ f.brand # None => p.brand = The(f.brand)
    /\ f.search # None => The(f.search) \in p.text
    /\ f.minPrice # None => \E v \in p.prices : v >= The(f.minPrice)
    /\ f.maxPrice # None => \E v \in p.prices : v <= The(f.maxPrice)

\* C20: the product listing returns at most limit products, each of them active and
\* matching the filters and none of them twice; pagination.total is the number of all
\* active products matching the filters, whatever page and limit are, with an empty
\* list when it is 0; totalPages = ceil(total / limit)
ListingIsPageOfActiveMatches ==
    Served("listProducts") =>
        LET q == req[1].query
            out == req[1].data
            all == {i \in CatalogIds :
                      products[i].isActive /\ MatchesFilters(products[i], q.filters)}
        IN /\ Len(out.products) <= q.limit
           /\ \A i \in DOMAIN out.products : out.products[i] \in all
           /\ \A i, j \in DOMAIN out.products : i # j => out.products[i] # out.products[j]
           /\ out.pagination.total = Cardinality(all)
           /\ out.pagination.total = 0 => out.products = <<>>
           /\ out.pagination.totalPages * q.limit >= out.pagination.total
           /\ out.pagination.totalPages * q.limit < out.pagination.total + q.limit
           /\ Len(out.products) =
                 IF q.page < out.pagination.totalPages THEN q.limit
                 ELSE IF q.page = out.pagination.totalPages
                      THEN out.pagination.total - (q.page - 1) * q.limit
                      ELSE 0

\* the second page of a filtered listing that leaves out an inactive and a
\* non-matching product
SecondPageOfFilteredListing ==
    /\ Served("listProducts")
    /\ req[1].query.page = 2
    /\ req[1].query.limit = 1
    /\ req[1].query.filters.brand # None
    /\ Len(req[1].data.products) = 1
    /\ req[1].data.pagination.total = 2
    /\ req[1].data.pagination.totalPages = 2
    /\ \E i \in CatalogIds : ~products[i].isActive

\* C21: a listing with minPrice and maxPrice returns only products that have a variant
\* priced within [minPrice, maxPrice], and its total counts exactly the active products
\* that have one and meet the other filters
PriceRangeHoldsForOneVariant ==
    Served("listProducts") /\ req[1].query.filters.minPrice # None
                           /\ req[1].query.filters.maxPrice # None =>
        LET f == req[1].query.filters
            out == req[1].data
            inRange(p) == \E v \in p.prices : The(f.minPrice) <= v /\ v <= The(f.maxPrice)
            all == {i \in CatalogIds :
                      /\ products[i].isActive
                      /\ f.category # None => products[i].category = The(f.category)
                      /\ f.brand # None => products[i].brand = The(f.brand)
                      /\ f.search # None => The(f.search) \in products[i].text
                      /\ inRange(products[i])}
        IN /\ \A i \in DOMAIN out.products : out.products[i] \in all
           /\ out.pagination.total = Cardinality(all)

\* the quantity of the variant v taken by the decrements that succeeded, over the
\* requests of slots 1..n
RECURSIVE SoldUpTo(_, _)
SoldUpTo(v, n) == IF n = 0 THEN 0 ELSE req[n].sold[v] + SoldUpTo(v, n - 1)

FailsAfterDecrement(r) ==
    /\ req[r].op = "checkout"
    /\ req[r].pc = "findProduct"
    /\ req'[r].pc = "done"
    /\ req'[r].res = "Failed"
    /\ \E v \in VariantIds : req[r].sold[v] > 0

SecondAddItemLands(r, x) ==
    /\ r # x
    /\ req[r].op = "addItem" /\ req[r].pc = "saveCart"
    /\ req'[r].pc = "done" /\ req'[r].res = "ok"
    /\ req[x].op = "addItem" /\ req[x].pc = "done" /\ req[x].res = "ok"
    /\ req[x].cartId = req[r].cartId
    /\ \A y \in Reqs \ {r, x} : req[y].pc = "idle"
    /\ req[r].base # carts[req[r].cartId]

FoundIffValidAndQualifying ==
    Served("findValidPromoCode") =>
        LET key == IF req[1].code = "save" THEN "SAVE" ELSE req[1].code
            subtotal == req[1].val
            qualifies == /\ key \in DOMAIN promos
                         /\ PromoIsValid(promos[key], now)
                         /\ \/ promos[key].minOrderAmount = None
                            \/ subtotal >= The(promos[key].minOrderAmount)
        IN /\ req[1].found # None <=> qualifies
           /\ req[1].found # None =>
                 /\ req[1].found = Some(promos[key])
                 /\ ~(Truthy(promos[key].minOrderAmount)
                        /\ subtotal < The(promos[key].minOrderAmount))
                 /\ CalculateDiscount(promos[key], subtotal, now) =
                       Min(IF Truthy(promos[key].maxDiscount)
                           THEN Min(RawDiscount(promos[key], subtotal),
                                    The(promos[key].maxDiscount))
                           ELSE RawDiscount(promos[key], subtotal),
                           subtotal)

\* a promo with a use left and a minimum order the subtotal meets, found under its code
\* given in lower case
FoundByLowerCaseCode ==
    /\ Served("findValidPromoCode")
    /\ req[1].code = "save"
    /\ req[1].found # None
    /\ promos["SAVE"].maxUses = Some(2)
    /\ promos["SAVE"].usedCount = 1
    /\ promos["SAVE"].minOrderAmount = Some(200)
    /\ req[1].val = 200

\* C26: whenever maxDiscount is set on a promo, 0 included, calculateDiscount gives no
\* more than maxDiscount; whenever minOrderAmount is set, 0 included, a subtotal below it
\* gives 0
SetLimitsAreApplied ==
    Served("calculateDiscount") =>
        LET p == promos[The(req[1].code)]
        IN /\ p.maxDiscount # None => req[1].fd <= The(p.maxDiscount)
           /\ p.minOrderAmount # None /\ req[1].val < The(p.minOrderAmount) => req[1].fd = 0

OrderAmountsInRange ==
    \A i \in 1..Len(orders) :
        /\ 0 <= orders[i].discount
        /\ orders[i].discount <= orders[i].subtotal
        /\ orders[i].total >= 0

\* an order created with the discount its cart recorded
OrderWithCartDiscount ==
    /\ Served("checkout")
    /\ req[1].res = "created"
    /\ req[1].code = None
    /\ orders[req[1].oid].discount > 0
    /\ orders[req[1].oid].discount = pre.carts[req[1].cartId].discount

\* C29: whenever a cart carries a promoCode, the discount it records is calculateDiscount
\* of that promo for the cart's current subtotal: right after applyPromoCode, and after
\* any later addItem, updateItemQuantity or removeItem on that cart
CartDiscountFollowsSubtotal ==
    /\ req[1].pc = "done"
    /\ req[1].op \in {"applyPromo", "addItem", "updateQuantity", "removeItem"}
    /\ req[1].res = "ok"
    /\ CartAfter.promoCode # None
    => CartAfter.discount =
          CalculateDiscount(promos[ToUpperCase(The(CartAfter.promoCode))],
                            CartAfter.subtotal, pre.time)

\* C30: after a successful add-item request the quantity of the resulting cart line is
\* at most the variant's stock as the request read it, also when the request added to a
\* line the cart already had; likewise after a successful update-quantity request with a
\* quantity above 0
LineWithinStockRead ==
    /\ Served("addItem") /\ req[1].res = "ok" =>
          LineQuantity(CartAfter, req[1].pid, req[1].vid) <=
              pre.stock[req[1].pid][req[1].vid]
    /\ Served("updateQuantity") /\ req[1].res = "ok" /\ req[1].qty > 0 =>
          LineQuantity(CartAfter, req[1].pid, req[1].vid) <=
              pre.stock[req[1].pid][req[1].vid]

====
